---- MODULE Spec2Model ----
(***************************************************************************)
(* Model of the recipe service of src/app.py: the recipes table, the       *)
(* ingredients_db reference table and the request handlers over them.      *)
(*                                                                         *)
(* Representation of values                                                *)
(*  - Text that the code only compares for equality (titles, group names)  *)
(*    is a TLA+ string; the Chinese literals of the source are written in  *)
(*    pinyin ("ZhuMianTuan" is the group of line 323's first entry).       *)
(*  - Text that the code searches (ingredient names) or parses (percent    *)
(*    strings) is a sequence of characters, one string per character.      *)
(*  - A nullable value (Python None, SQL NULL) is the empty tuple None,    *)
(*    and a present value v is the one-element tuple Some(v).              *)
(*  - Weights and flour totals are floats in the code; here they are exact *)
(*    decimals counted in hundredths of a gram (cg). The conversion ratio  *)
(*    is the exact quotient, kept as a reduced fraction <<num, den>>.      *)
(*    round(x, 1) rounds half to even, as Python does on a value that is   *)
(*    exactly representable.                                               *)
(*  - A parsed percent number is a decimal with FracDigits places, counted *)
(*    in units of 10^-FracDigits; a stored percent (a fraction) has two    *)
(*    places more and is counted in units of 10^-(FracDigits + 2).         *)
(***************************************************************************)
EXTENDS Integers, Sequences, FiniteSets, TLC

\* recipes and ingredients_db are the two tables, clock the last timestamp
\* taken, request and response the last request served and its response,
\* connections the number of database connections open.
VARIABLES recipes, ingredients_db, clock, request, response, connections

vars == <<recipes, ingredients_db, clock, request, response, connections>>

(***************************************************************************)
(* Bounds of the model.                                                    *)
(***************************************************************************)
\* Rows the recipes table may hold.
MaxRows == 3
\* Number of timestamps datetime.now() hands out (save and update requests).
MaxClock == 2
\* Database connections that may be open at once.
MaxConnections == 2

(***************************************************************************)
(* Nullable values.                                                        *)
(***************************************************************************)
None == <<>>
Some(v) == <<v>>

\* Python's `x or d` on a nullable column: d when x is None or falsy.
OrElse(x, falsy, d) == IF x = None \/ x = Some(falsy) THEN d ELSE x[1]

(***************************************************************************)
(* Arithmetic on exact decimals.                                           *)
(***************************************************************************)
Abs(x) == IF x < 0 THEN -x ELSE x

RECURSIVE Gcd(_, _)
Gcd(a, b) == IF b = 0 THEN Abs(a) ELSE Gcd(b, a % b)

\* The quotient n / d (d # 0) as a reduced fraction with positive denominator.
Quotient(n, d) ==
    LET g == Gcd(n, d)
        s == IF d < 0 THEN -1 ELSE 1
    IN  <<(s * n) \div g, (s * d) \div g>>

\* p / q (q > 0) rounded to the nearest integer, ties to the even one.
RoundHalfEven(p, q) ==
    LET r == (2 * p + q) \div (2 * q)
        tie == (2 * p + q) % (2 * q) = 0
    IN  IF tie /\ r % 2 # 0 THEN r - 1 ELSE r

\* Variant of RoundedProduct that rounds to whole grams.
RoundedProduct_whole(w, ratio) == 100 * RoundHalfEven(w * ratio[1], 100 * ratio[2])

\* Variant of RoundedProduct that cuts the product off after one decimal.
RoundedProduct_truncated(w, ratio) == 10 * ((w * ratio[1]) \div (10 * ratio[2]))

\* round(w * ratio, 1) of line 306: w in cg, the result in cg (a multiple of
\* ten, since one decimal place of a gram is ten cg).
RoundedProduct(w, ratio) == 10 * RoundHalfEven(w * ratio[1], 10 * ratio[2])

(***************************************************************************)
(* Characters and text.                                                    *)
(***************************************************************************)
Digits == <<"0", "1", "2", "3", "4", "5", "6", "7", "8", "9">>

IsDigit(c) == \E i \in 1..10 : Digits[i] = c

DigitVal(c) == (CHOOSE i \in 1..10 : Digits[i] = c) - 1

\* str.strip(): leading and trailing blanks removed.
RECURSIVE LStrip(_)
LStrip(s) == IF s # <<>> /\ Head(s) = " " THEN LStrip(Tail(s)) ELSE s

RECURSIVE RStrip(_)
RStrip(s) ==
    IF s # <<>> /\ s[Len(s)] = " " THEN RStrip(SubSeq(s, 1, Len(s) - 1)) ELSE s

Strip(s) == RStrip(LStrip(s))

\* str.replace(c, ''): every occurrence of the character removed.
RECURSIVE RemoveAll(_, _)
RemoveAll(s, c) ==
    IF s = <<>> THEN <<>>
    ELSE IF Head(s) = c THEN RemoveAll(Tail(s), c)
    ELSE <<Head(s)>> \o RemoveAll(Tail(s), c)

\* `keyword in text`: keyword occurs as a contiguous run of text.
Contains(text, keyword) ==
    \E i \in 1..(Len(text) - Len(keyword) + 1) :
        SubSeq(text, i, i + Len(keyword) - 1) = keyword

\* The value of a run of digits.
RECURSIVE DigitsValue(_)
DigitsValue(s) ==
    IF s = <<>> THEN 0
    ELSE 10 * DigitsValue(SubSeq(s, 1, Len(s) - 1)) + DigitVal(s[Len(s)])

AllDigits(s) == \A i \in 1..Len(s) : IsDigit(s[i])

\* Decimal places a parsed number keeps.
FracDigits == 3
\* Length of the percent strings drawn from PercentAlphabet; no longer than
\* FracDigits, so that float() of the model reads every digit of them.
MaxPercentLen == 3

RECURSIVE Pow10(_)
Pow10(k) == IF k = 0 THEN 1 ELSE 10 * Pow10(k - 1)

\* The number i + f / 1000 in units of 10^-FracDigits.
Num(i, f) == i * Pow10(FracDigits) + f * Pow10(FracDigits - 3)

\* float(s) on the decimal literals [blank][sign]digits[.digits][blank]:
\* Some(value in units of 10^-FracDigits), or None where float raises
\* ValueError.
ParseFloat(str) ==
    LET s == Strip(str)
        signed == s # <<>> /\ Head(s) \in {"-", "+"}
        sign == IF s # <<>> /\ Head(s) = "-" THEN -1 ELSE 1
        body == IF signed THEN Tail(s) ELSE s
        dots == {i \in 1..Len(body) : body[i] = "."}
        dot == IF dots = {} THEN Len(body) + 1 ELSE CHOOSE i \in dots : TRUE
        int == SubSeq(body, 1, dot - 1)
        frac == SubSeq(body, dot + 1, Len(body))
    IN  IF /\ Cardinality(dots) <= 1
           /\ AllDigits(int)
           /\ AllDigits(frac)
           /\ Len(int) + Len(frac) > 0
           /\ Len(frac) <= FracDigits
        THEN Some(sign * (DigitsValue(int) * Pow10(FracDigits)
                          + DigitsValue(frac) * Pow10(FracDigits - Len(frac))))
        ELSE None

(***************************************************************************)
(* Percent values of a request: None, a string or a number.                *)
(***************************************************************************)
PyNone == [t |-> "none"]
PyStr(s) == [t |-> "str", s |-> s]
\* A JSON number n, in units of 10^-FracDigits.
PyNum(n) == [t |-> "num", n |-> n]

\* n / 100 as a fraction: n hundredths of the unit of n, which is n units of
\* 10^-(FracDigits + 2).
Div100(n) == n
\* n itself as a fraction, in units of 10^-(FracDigits + 2).
AsFraction(n) == 100 * n

\* Variant of PercentScale that also divides the value 1.
PercentScale_inclusive(n) ==
    IF n >= Num(1, 0) THEN Div100(n) ELSE AsFraction(n)

\* `n / 100 if n > 1 else n` of lines 69 and 73.
PercentScale(n) ==
    IF n > Num(1, 0) THEN Div100(n) ELSE AsFraction(n)

normalize_percent_value(p) ==
    IF p = PyNone \/ p = PyStr(<<>>) THEN None
    ELSE IF p.t = "str" THEN
        LET s == Strip(p.s) IN
        IF s # <<>> /\ s[Len(s)] = "%" THEN
            LET n == ParseFloat(Strip(RemoveAll(s, "%"))) IN
            IF n = None THEN None ELSE Some(Div100(n[1]))
        ELSE
            LET n == ParseFloat(s) IN
            IF n = None THEN None ELSE Some(PercentScale(n[1]))
    ELSE IF p.t = "num" THEN Some(PercentScale(p.n))
    ELSE None

\* The text of a non-negative integer.
RECURSIVE NatText(_)
NatText(n) ==
    IF n < 10 THEN <<Digits[n + 1]>>
    ELSE NatText(n \div 10) \o <<Digits[(n % 10) + 1]>>

\* Variant of PercentDisplay that formats to one decimal place.
PercentDisplay_oneDecimal(percent) ==
    LET h == RoundHalfEven(percent, Pow10(FracDigits - 1))
        a == Abs(h)
    IN  (IF h < 0 THEN <<"-">> ELSE <<>>)
        \o NatText(a \div 10)
        \o <<".", Digits[(a % 10) + 1], "%">>

\* f"{percent * 100:.2f}%" of lines 173 and 282: percent * 100 is `percent`
\* units of 10^-FracDigits, rounded here to hundredths.
PercentDisplay(percent) ==
    LET h == RoundHalfEven(percent, Pow10(FracDigits - 2))
        a == Abs(h)
    IN  (IF h < 0 THEN <<"-">> ELSE <<>>)
        \o NatText(a \div 100)
        \o <<".", Digits[((a \div 10) % 10) + 1], Digits[(a % 10) + 1], "%">>

(***************************************************************************)
(* Ingredient names and group names of the source, in pinyin.              *)
(***************************************************************************)
GaoJinMianFen == <<"gao", "jin", "mian", "fen">>
ZhongJinMianFen == <<"zhong", "jin", "mian", "fen">>
DiJinMianFen == <<"di", "jin", "mian", "fen">>
QuanMaiMianFen == <<"quan", "mai", "mian", "fen">>
LuoMaiFen == <<"luo", "mai", "fen">>
MianFen == <<"mian", "fen">>
\* Names without a flour keyword: sugar, icing sugar, water.
Tang == <<"tang">>
TangFen == <<"tang", "fen">>
Shui == <<"shui">>

flour_keywords ==
    <<GaoJinMianFen, ZhongJinMianFen, DiJinMianFen, QuanMaiMianFen, LuoMaiFen,
      MianFen>>

is_flour_ingredient(ingredient_name) ==
    \E k \in 1..Len(flour_keywords) : Contains(ingredient_name, flour_keywords[k])

percentage_groups ==
    <<"ZhuMianTuan", "MianTuanXianLiaoA", "MianTuanXianLiaoB", "BoLanZhong",
      "YeZhong", "ZhongZhong", "LuBanZhong">>

is_percentage_group(group_name) ==
    \E k \in 1..Len(percentage_groups) : percentage_groups[k] = group_name

(***************************************************************************)
(* The recipes table. A row keeps the columns the handlers read back:      *)
(* title, group_name, ingredient, weight, percent, description, timestamp. *)
(* weight, percent and description are nullable. The steps and baking      *)
(* columns are written from the request and read back unchanged; no        *)
(* handler computes with them and they are left out.                       *)
(***************************************************************************)
Row(title, ing, percent_norm, timestamp) ==
    [title |-> title, group_name |-> ing.group, ingredient |-> ing.name,
     weight |-> ing.weight, percent |-> percent_norm,
     description |-> ing.desc, timestamp |-> timestamp]

\* The keys the INSERT loop reads from an ingredient dict (lines 131 and 136).
IngredientKeys == {"percent", "group", "name", "weight", "desc"}

\* The INSERT loop of save_recipe and update_recipe, run inside the
\* connection's transaction: one row per ingredient, in request order, each
\* percent normalized. The result is the table as the transaction sees it
\* when the loop ends, and the exception that ended it, if any: an ingredient
\* dict without one of the keys raises KeyError at that ingredient.
RECURSIVE InsertAll(_, _, _, _)
InsertAll(table, title, ingredients, timestamp) ==
    IF ingredients = <<>> THEN [table |-> table, exception |-> None]
    ELSE IF ~(IngredientKeys \subseteq DOMAIN Head(ingredients))
    THEN [table |-> table, exception |-> Some("KeyError")]
    ELSE InsertAll(
             Append(table,
                    Row(title, Head(ingredients),
                        normalize_percent_value(Head(ingredients).percent),
                        timestamp)),
             title, Tail(ingredients), timestamp)

\* Variant of Committed in which every statement is committed as it runs.
Committed_autocommit(before, work) == work.table

\* conn.commit() of lines 139 and 222 is reached only when no statement
\* raised: the table is then what the transaction wrote; otherwise the
\* transaction is never committed and the table stays as it was.
Committed(before, work) ==
    IF work.exception = None THEN work.table ELSE before

\* Lines 17-19 and conn.close(): the count of open connections.
get_db_connection(open) == open + 1
conn_close(open) == open - 1

\* DELETE FROM recipes WHERE title = %s
DeleteByTitle(table, title) == SelectSeq(table, LAMBDA row : row.title # title)

\* Variant of SelectByTitle without the WHERE clause.
SelectByTitle_all(table, title) == table

\* SELECT * FROM recipes WHERE title = %s
SelectByTitle(table, title) == SelectSeq(table, LAMBDA row : row.title = title)

\* SELECT * FROM recipes ORDER BY timestamp DESC
RECURSIVE OrderByTimestampDesc(_, _)
OrderByTimestampDesc(table, t) ==
    IF t = 0 THEN <<>>
    ELSE SelectSeq(table, LAMBDA row : row.timestamp = t)
         \o OrderByTimestampDesc(table, t - 1)

(***************************************************************************)
(* The ingredient dict the handlers build from a row (lines 171-180 and    *)
(* 281-289). The requests modelled always carry a group and a name, so     *)
(* `or ""` leaves these two as they are.                                   *)
(***************************************************************************)
BuildIngredient(row) ==
    [group |-> row.group_name,
     name |-> row.ingredient,
     weight |-> OrElse(row.weight, 0, 0),
     percent |-> IF row.percent # None THEN PercentDisplay(row.percent[1])
                 ELSE <<>>,
     desc |-> OrElse(row.description, "", "")]

BuildIngredients(rows) == [i \in 1..Len(rows) |-> BuildIngredient(rows[i])]

\* The grouping loop of get_recipes (lines 154-181): one recipe per title, in
\* the order the titles first appear, each collecting its rows' ingredients.
RECURSIVE GroupByTitle(_, _)
GroupByTitle(data, acc) ==
    IF data = <<>> THEN acc
    ELSE
        LET row == Head(data)
            at == {i \in 1..Len(acc) : acc[i].title = row.title}
        IN  IF at = {}
            THEN GroupByTitle(Tail(data),
                     Append(acc, [title |-> row.title,
                                  ingredients |-> <<BuildIngredient(row)>>,
                                  timestamp |-> row.timestamp]))
            ELSE GroupByTitle(Tail(data),
                     [acc EXCEPT ![CHOOSE i \in at : TRUE].ingredients =
                                     Append(@, BuildIngredient(row))])

RecipeList(table, now) == GroupByTitle(OrderByTimestampDesc(table, now), <<>>)

(***************************************************************************)
(* The conversion of calculate_recipe_conversion (lines 291-316).          *)
(***************************************************************************)
\* Variant of CountsAsFlour that also accepts a name the reference table
\* records with hydration 0.
CountsAsFlour_orDry(ing) ==
    /\ \/ is_flour_ingredient(ing.name)
       \/ /\ ing.name \in DOMAIN ingredients_db
          /\ ingredients_db[ing.name] = 0
    /\ is_percentage_group(ing.group)

\* Variant of CountsAsFlour that leaves out the group test.
CountsAsFlour_anyGroup(ing) == is_flour_ingredient(ing.name)

\* Line 294: the test for an ingredient to count toward the flour total.
CountsAsFlour(ing) ==
    is_flour_ingredient(ing.name) /\ is_percentage_group(ing.group)

\* Lines 292-295.
RECURSIVE OriginalTotalFlour(_)
OriginalTotalFlour(ingredients) ==
    IF ingredients = <<>> THEN 0
    ELSE OriginalTotalFlour(SubSeq(ingredients, 1, Len(ingredients) - 1))
         + (IF CountsAsFlour(ingredients[Len(ingredients)])
            THEN ingredients[Len(ingredients)].weight ELSE 0)

\* Variant of NoFlour that lets a total of 0 through.
NoFlour_strict(original_total_flour) == original_total_flour < 0

\* Line 297: the guard of the 400 response.
NoFlour(original_total_flour) == original_total_flour <= 0

\* Line 300: Python's float division; ZeroDivisionError when the divisor is 0.
ZeroDivisionError == <<>>
Divide(n, d) == IF d = 0 THEN ZeroDivisionError ELSE Quotient(n, d)

\* Variant of ScalesWeight that scales a percentage group only with the flag.
ScalesWeight_flagRequired(ing, include_non_percentage_groups) ==
    is_percentage_group(ing.group) /\ include_non_percentage_groups

\* Line 305: the test for an ingredient's weight to be scaled.
ScalesWeight(ing, include_non_percentage_groups) ==
    is_percentage_group(ing.group) \/ include_non_percentage_groups

\* Lines 304-306: the copy of one ingredient, its weight scaled or not.
ConvertIngredient(ing, conversion_ratio, include_non_percentage_groups) ==
    IF ScalesWeight(ing, include_non_percentage_groups)
    THEN [ing EXCEPT !.weight = RoundedProduct(ing.weight, conversion_ratio)]
    ELSE ing

\* Variant of ConvertedIngredients that appends only the scaled ingredients.
ConvertedIngredients_scaledOnly(ingredients, conversion_ratio, include_non_percentage_groups) ==
    LET scaled == SelectSeq(ingredients,
                      LAMBDA ing : ScalesWeight(ing, include_non_percentage_groups))
    IN  [i \in 1..Len(scaled) |->
            ConvertIngredient(scaled[i], conversion_ratio,
                              include_non_percentage_groups)]

\* Lines 302-307.
ConvertedIngredients(ingredients, conversion_ratio, include_non_percentage_groups) ==
    [i \in 1..Len(ingredients) |->
        ConvertIngredient(ingredients[i], conversion_ratio,
                          include_non_percentage_groups)]

\* Variant of ReturnedRatio that rounds to three decimals.
ReturnedRatio_rounded(conversion_ratio) ==
    Quotient(RoundHalfEven(1000 * conversion_ratio[1], conversion_ratio[2]), 1000)

\* The values of lines 311-313 as they are put in the response.
ReturnedFlour(flour) == flour
ReturnedRatio(conversion_ratio) == conversion_ratio

\* Responses.
Success == [status |-> "success", code |-> 200]
Error(code, message) == [status |-> "error", code |-> code, message |-> message]
\* An exception that leaves the handler: Flask answers 500.
InternalServerError(exception) == Error(500, exception)

\* Lines 265-316: the response computed from the rows the SELECT returned.
ConversionResponse(rows, recipe_title, new_total_flour, include_non_percentage_groups) ==
    LET recipe == [title |-> recipe_title, ingredients |-> BuildIngredients(rows)]
        original_total_flour == OriginalTotalFlour(recipe.ingredients)
        conversion_ratio == Divide(new_total_flour, original_total_flour)
    IN  IF rows = <<>> THEN Error(404, "recipe not found")
        ELSE IF NoFlour(original_total_flour)
        THEN Error(400, "no flour ingredient or flour weight is 0")
        ELSE IF conversion_ratio = ZeroDivisionError
        THEN InternalServerError("ZeroDivisionError")
        ELSE [status |-> "success", code |-> 200,
              originalTotalFlour |-> ReturnedFlour(original_total_flour),
              newTotalFlour |-> ReturnedFlour(new_total_flour),
              conversionRatio |-> ReturnedRatio(conversion_ratio),
              ingredients |-> ConvertedIngredients(recipe.ingredients,
                                  conversion_ratio, include_non_percentage_groups),
              recipe |-> recipe]

(***************************************************************************)
(* The inputs of the requests.                                             *)
(***************************************************************************)
Titles == {"T1", "T2"}

\* Ingredient dicts of a request body: group, name, weight, percent, desc.
\* "ZhuangShi" (decoration) is a group outside percentage_groups.
Ingredient(group, name, weight, percent, desc) ==
    [group |-> group, name |-> name, weight |-> weight, percent |-> percent,
     desc |-> desc]

FlourInDough ==
    \* bread flour 500 g in the main dough
    Ingredient("ZhuMianTuan", GaoJinMianFen, Some(50000),
               PyStr(<<"1", "0", "0", "%">>), Some(""))
IcingSugarOnTop ==
    \* icing sugar 20 g as decoration
    Ingredient("ZhuangShi", TangFen, Some(2000), PyStr(<<>>), None)
SugarInDough ==
    \* sugar 12.25 g in the main dough
    Ingredient("ZhuMianTuan", Tang, Some(1225), PyStr(<<"2", ".", "4", "5">>),
               Some("fine"))
FlourOnTop ==
    \* flour 100 g as decoration
    Ingredient("ZhuangShi", MianFen, Some(10000), PyNone, Some("dusting"))
RyeInPoolish ==
    \* rye flour 300 g in the poolish
    Ingredient("BoLanZhong", LuoMaiFen, Some(30000), PyNum(Num(60, 0)), None)
FlourNoWeight ==
    \* flour with no weight in the main dough
    Ingredient("ZhuMianTuan", MianFen, None, PyStr(<<"a", "b", "c">>), Some(""))

SugarNoPercent ==
    \* sugar 10 g in the main dough, sent without the "percent" key
    [group |-> "ZhuMianTuan", name |-> Tang, weight |-> Some(1000),
     desc |-> Some("")]

\* Ingredient lists of the request bodies.
IngredientLists ==
    { <<>>,
      <<FlourInDough>>,
      <<FlourInDough, IcingSugarOnTop>>,
      <<RyeInPoolish, SugarInDough>>,
      <<IcingSugarOnTop>>,
      <<FlourOnTop, FlourNoWeight>>,
      <<SugarInDough>> }

\* Ingredient lists of request bodies, some with an ingredient that lacks a
\* key: alone, and after a complete ingredient.
StoreLists ==
    { <<>>,
      <<FlourInDough>>,
      <<IcingSugarOnTop>>,
      <<SugarNoPercent>>,
      <<SugarInDough, SugarNoPercent>> }

\* newTotalFlour of a conversion request, in cg: -100 g, 0, 100 g, 100.25 g,
\* 1000 g.
NewTotalFlourValues == {-10000, 0, 10000, 10025, 100000}

\* Names and hydrations (percent) of reference-table requests.
ReferenceNames == {Tang}
HydrationValues == {0, 100}

(***************************************************************************)
(* Initial state: init_db (lines 22-53) has created both tables, empty;    *)
(* no request has been served.                                             *)
(***************************************************************************)
Init ==
    /\ recipes = <<>>
    /\ ingredients_db = [name \in {} |-> 0]
    /\ clock = 0
    /\ request = [op |-> "init_db"]
    /\ response = Success
    /\ connections = 0

(***************************************************************************)
(* The request handlers.                                                   *)
(***************************************************************************)
\* Lines 88-102: INSERT ... ON CONFLICT (name) DO UPDATE.
save_ingredient_db(name, hydration) ==
    /\ connections < MaxConnections
    /\ connections' = conn_close(get_db_connection(connections))
    /\ ingredients_db' =
           [n \in DOMAIN ingredients_db \cup {name} |->
               IF n = name THEN hydration ELSE ingredients_db[n]]
    /\ request' = [op |-> "save_ingredient_db"]
    /\ response' = Success
    /\ UNCHANGED <<recipes, clock>>

\* Lines 105-116. The 404 branch (lines 112-113) returns before cur.close()
\* and conn.close().
delete_ingredient_db(name) ==
    /\ connections < MaxConnections
    /\ connections' = IF name \in DOMAIN ingredients_db
                      THEN conn_close(get_db_connection(connections))
                      ELSE get_db_connection(connections)
    /\ ingredients_db' =
           [n \in DOMAIN ingredients_db \ {name} |-> ingredients_db[n]]
    /\ request' = [op |-> "delete_ingredient_db"]
    /\ response' = IF name \in DOMAIN ingredients_db THEN Success
                   ELSE Error(404, "ingredient not found")
    /\ UNCHANGED <<recipes, clock>>

\* Lines 119-142.
save_recipe(title, ingredients) ==
    LET work == InsertAll(recipes, title, ingredients, clock + 1)
    IN  /\ clock < MaxClock
        /\ connections < MaxConnections
        /\ Len(recipes) + Len(ingredients) <= MaxRows
        /\ clock' = clock + 1
        /\ recipes' = Committed(recipes, work)
        /\ request' = [op |-> "save_recipe", title |-> title,
                       ingredients |-> ingredients]
        /\ response' = IF work.exception = None THEN Success
                       ELSE InternalServerError(work.exception[1])
        /\ connections' = IF work.exception = None
                          THEN conn_close(get_db_connection(connections))
                          ELSE get_db_connection(connections)
        /\ UNCHANGED ingredients_db

\* Lines 145-181.
get_recipes ==
    /\ connections < MaxConnections
    /\ connections' = conn_close(get_db_connection(connections))
    /\ request' = [op |-> "get_recipes"]
    /\ response' = [status |-> "success", code |-> 200,
                    recipes |-> RecipeList(recipes, clock)]
    /\ UNCHANGED <<recipes, ingredients_db, clock>>

\* Lines 184-194.
delete_recipe(title) ==
    /\ connections < MaxConnections
    /\ connections' = conn_close(get_db_connection(connections))
    /\ recipes' = DeleteByTitle(recipes, title)
    /\ request' = [op |-> "delete_recipe", title |-> title]
    /\ response' = Success
    /\ UNCHANGED <<ingredients_db, clock>>

\* Lines 197-225.
update_recipe(old_title, new_title, ingredients) ==
    LET work == InsertAll(DeleteByTitle(recipes, old_title), new_title,
                          ingredients, clock + 1)
    IN  /\ clock < MaxClock
        /\ connections < MaxConnections
        /\ Len(DeleteByTitle(recipes, old_title)) + Len(ingredients) <= MaxRows
        /\ clock' = clock + 1
        /\ recipes' = Committed(recipes, work)
        /\ request' = [op |-> "update_recipe", oldTitle |-> old_title,
                       newTitle |-> new_title, ingredients |-> ingredients]
        /\ response' = IF work.exception = None THEN Success
                       ELSE InternalServerError(work.exception[1])
        /\ connections' = IF work.exception = None
                          THEN conn_close(get_db_connection(connections))
                          ELSE get_db_connection(connections)
        /\ UNCHANGED ingredients_db

\* Lines 239-247.
clear_all_data ==
    /\ connections < MaxConnections
    /\ connections' = conn_close(get_db_connection(connections))
    /\ recipes' = <<>>
    /\ request' = [op |-> "clear_all_data"]
    /\ response' = Success
    /\ UNCHANGED <<ingredients_db, clock>>

\* Variant of calculate_recipe_conversion that stores the converted weights.
calculate_recipe_conversion_writeback(recipe_title, new_total_flour, include_non_percentage_groups) ==
    LET result == ConversionResponse(SelectByTitle(recipes, recipe_title),
                      recipe_title, new_total_flour,
                      include_non_percentage_groups)
        kept == DeleteByTitle(recipes, recipe_title)
        rows == SelectByTitle(recipes, recipe_title)
    IN  /\ request' = [op |-> "calculate_recipe_conversion",
                       recipeTitle |-> recipe_title,
                       newTotalFlour |-> new_total_flour,
                       includeNonPercentageGroups |-> include_non_percentage_groups]
        /\ response' = result
        /\ recipes' = IF result.status = "success"
                      THEN kept \o [i \in 1..Len(rows) |->
                               [rows[i] EXCEPT !.weight =
                                    Some(result.ingredients[i].weight)]]
                      ELSE recipes
        /\ UNCHANGED <<ingredients_db, clock, connections>>

\* Lines 250-316: the SELECT, the cursor and the connection closed (lines
\* 262-263), then the response; nothing is written.
calculate_recipe_conversion(recipe_title, new_total_flour, include_non_percentage_groups) ==
    /\ connections < MaxConnections
    /\ connections' = conn_close(get_db_connection(connections))
    /\ request' = [op |-> "calculate_recipe_conversion",
                   recipeTitle |-> recipe_title,
                   newTotalFlour |-> new_total_flour,
                   includeNonPercentageGroups |-> include_non_percentage_groups]
    /\ response' = ConversionResponse(SelectByTitle(recipes, recipe_title),
                       recipe_title, new_total_flour,
                       include_non_percentage_groups)
    /\ UNCHANGED <<recipes, ingredients_db, clock>>

(***************************************************************************)
(* The conversion dialog of the page (lines 794-846): opening it computes  *)
(* the flour total of the recipe and sets the ratio to 1 (line 819), which *)
(* fills in the new total; "calculate" then sends the request.             *)
(***************************************************************************)
\* Lines 807-818, for a recipe of the loaded list.
calculateOriginalFlour(recipe) == OriginalTotalFlour(recipe.ingredients)

\* Lines 822-826: newFlour = originalTotalFlour * ratio.
setRatio(originalTotalFlour, ratio) == (originalTotalFlour * ratio[1]) \div ratio[2]

calculateConversion(title, includeNonPercentage) ==
    LET list == RecipeList(recipes, clock)
        found == {i \in 1..Len(list) : list[i].title = title}
    IN  /\ found # {}
        /\ calculate_recipe_conversion(
               title,
               setRatio(calculateOriginalFlour(list[CHOOSE i \in found : TRUE]),
                        <<1, 1>>),
               includeNonPercentage)

Next ==
    \/ \E name \in ReferenceNames, hydration \in HydrationValues :
           save_ingredient_db(name, hydration)
    \/ \E title \in Titles, ingredients \in IngredientLists :
           save_recipe(title, ingredients)
    \/ get_recipes
    \/ \E title \in Titles : delete_recipe(title)
    \/ \E old_title \in Titles, new_title \in Titles,
          ingredients \in IngredientLists :
           update_recipe(old_title, new_title, ingredients)
    \/ clear_all_data
    \/ \E recipe_title \in Titles, new_total_flour \in NewTotalFlourValues,
          include_non_percentage_groups \in BOOLEAN :
           calculate_recipe_conversion(recipe_title, new_total_flour,
                                       include_non_percentage_groups)
    \/ \E title \in Titles, includeNonPercentage \in BOOLEAN :
           calculateConversion(title, includeNonPercentage)

\* The service as the conversion claims exercise it: requests whose
\* ingredient dicts are complete, and the reference table only written.
Spec == Init /\ [][Next]_vars

(***************************************************************************)
(* The service as the percent claims exercise it: a recipe of one          *)
(* ingredient is submitted with a percent value drawn from PercentInputs,  *)
(* stored normalized, listed with its percent formatted, and loaded into   *)
(* the form and submitted again.                                           *)
(***************************************************************************)
PercentAlphabet == {"0", "1", "5", ".", "%", "-", " ", "a"}

\* The strings over PercentAlphabet of at most n characters.
RECURSIVE StringsUpTo(_)
StringsUpTo(n) ==
    IF n = 0 THEN {<<>>}
    ELSE LET shorter == StringsUpTo(n - 1)
         IN  shorter \cup {Append(t, c) : t \in shorter, c \in PercentAlphabet}

\* Percent values of a request: null, numbers, every short string, and
\* longer percent strings as a user types them.
PercentInputs ==
    {PyNone}
    \cup {PyNum(n) : n \in {Num(-5, 0), Num(0, 0), Num(0, 500), Num(1, 0),
                            Num(1, 500), Num(62, 500)}}
    \cup {PyStr(t) : t \in StringsUpTo(MaxPercentLen)}
    \cup {PyStr(<<"6", "2", ".", "5", "%">>),
          PyStr(<<"3", "3", ".", "3", "3", "3", "%">>),
          PyStr(<<"0", ".", "6", "2", "5">>),
          PyStr(<<"1", "2", ".", "5">>)}

\* Bread flour 500 g in the main dough, with the percent value p.
WithPercent(p) ==
    Ingredient("ZhuMianTuan", GaoJinMianFen, Some(50000), p, Some(""))

\* saveOrUpdateRecipe (lines 592-621) outside edit mode, on an empty table.
submitPercent(p) ==
    /\ recipes = <<>>
    /\ save_recipe("T1", <<WithPercent(p)>>)

\* The groups of an ingredient list in the order they first appear.
RECURSIVE GroupsOf(_, _)
GroupsOf(ingredients, seen) ==
    IF ingredients = <<>> THEN seen
    ELSE GroupsOf(Tail(ingredients),
             IF \E k \in 1..Len(seen) : seen[k] = Head(ingredients).group
             THEN seen ELSE Append(seen, Head(ingredients).group))

\* Lines 703-722 and collectIngredients (576-591): the form is filled group
\* by group and read back as a request's ingredient list, the displayed
\* percent as a string.
RECURSIVE FormIngredients(_, _)
FormIngredients(ingredients, groups) ==
    IF groups = <<>> THEN <<>>
    ELSE LET of == SelectSeq(ingredients,
                       LAMBDA ing : ing.group = Head(groups))
         IN  [i \in 1..Len(of) |->
                 Ingredient(of[i].group, of[i].name, Some(of[i].weight),
                            PyStr(of[i].percent), Some(of[i].desc))]
             \o FormIngredients(ingredients, Tail(groups))

\* editRecipe (lines 691-726) of a listed recipe, then saveOrUpdateRecipe in
\* edit mode with the form unchanged: update_recipe under the same title.
editRecipe(title) ==
    LET list == RecipeList(recipes, clock)
        found == {i \in 1..Len(list) : list[i].title = title}
        recipe == list[CHOOSE i \in found : TRUE]
    IN  /\ found # {}
        /\ update_recipe(title, title,
               FormIngredients(recipe.ingredients,
                               GroupsOf(recipe.ingredients, <<>>)))

NextPercent ==
    \/ \E p \in PercentInputs : submitPercent(p)
    \/ get_recipes
    \/ \E title \in Titles : editRecipe(title)

SpecPercent == Init /\ [][NextPercent]_vars

\* A connection a handler returned without closing stays open until the
\* runtime finalises the connection object; when that happens is not the
\* handler's doing.
collect_connection ==
    /\ connections > 0
    /\ connections' = conn_close(connections)
    /\ UNCHANGED <<recipes, ingredients_db, clock, request, response>>

(***************************************************************************)
(* The recipe form's hydration display (lines 464 and 566-574): typing in  *)
(* the name field of an ingredient row fetches the reference table and     *)
(* shows the hydration recorded for the typed name.                        *)
(***************************************************************************)
\* Lines 77-85: the reference table as the handler returns it.
get_ingredients_db == ingredients_db

\* The text after the label of line 572: `${hydration}%`.
HydrationText(hydration) == NatText(hydration) \o <<"%">>

\* Lines 566-574, for the k-th ingredient row of the form. The form's other
\* rows are kept in the request record; the function does not read them.
updateHydration(form, k) ==
    LET name == Strip(form[k].name)
        db == get_ingredients_db
        hydration == IF name \in DOMAIN db THEN db[name] ELSE 0
    IN  /\ name # <<>>
        /\ connections < MaxConnections
        /\ connections' = conn_close(get_db_connection(connections))
        /\ request' = [op |-> "updateHydration", form |-> form, input |-> k]
        /\ response' = [status |-> "success", code |-> 200,
                        hydration_display |-> HydrationText(hydration)]
        /\ UNCHANGED <<recipes, ingredients_db, clock>>

\* Flour 1000 g and water 700 g in the main dough.
FlourKilo ==
    Ingredient("ZhuMianTuan", GaoJinMianFen, Some(100000), PyStr(<<>>), Some(""))
Water700 ==
    Ingredient("ZhuMianTuan", Shui, Some(70000), PyStr(<<>>), Some(""))

\* Contents of the recipe form.
HydrationForms ==
    { <<FlourKilo, Water700>>,
      <<FlourKilo, SugarInDough>>,
      <<IcingSugarOnTop>> }

HydrationNames == {Shui, Tang}

NextHydration ==
    \/ \E name \in HydrationNames, hydration \in HydrationValues :
           save_ingredient_db(name, hydration)
    \/ \E name \in HydrationNames : delete_ingredient_db(name)
    \/ \E form \in HydrationForms : \E k \in 1..Len(form) :
           updateHydration(form, k)
    \/ collect_connection

SpecHydration == Init /\ [][NextHydration]_vars

(***************************************************************************)
(* The service as the storage claims exercise it: request bodies that may  *)
(* lack a key, deletions from the reference table, and the connections the *)
(* handlers open and close.                                                *)
(***************************************************************************)
NextStore ==
    \/ \E name \in ReferenceNames, hydration \in HydrationValues :
           save_ingredient_db(name, hydration)
    \/ \E name \in ReferenceNames : delete_ingredient_db(name)
    \/ \E title \in Titles, ingredients \in StoreLists :
           save_recipe(title, ingredients)
    \/ get_recipes
    \/ \E title \in Titles : delete_recipe(title)
    \/ \E old_title \in Titles, new_title \in Titles,
          ingredients \in StoreLists :
           update_recipe(old_title, new_title, ingredients)
    \/ clear_all_data
    \/ \E recipe_title \in Titles, include_non_percentage_groups \in BOOLEAN :
           calculate_recipe_conversion(recipe_title, 10000,
                                       include_non_percentage_groups)
    \/ collect_connection

SpecStore == Init /\ [][NextStore]_vars

(***************************************************************************)
(* Properties. They are stated over the state right after a request: the   *)
(* last request, its response, and the tables, which a conversion leaves   *)
(* as it found them.                                                       *)
(***************************************************************************)
ConversionServed == request.op = "calculate_recipe_conversion"

Converted == ConversionServed /\ response.status = "success"

\* The ingredient list of the recipe the last conversion request named.
StoredIngredients == BuildIngredients(SelectByTitle(recipes, request.recipeTitle))

\* The sum of the weights of the ingredients at the positions I.
RECURSIVE WeightSum(_, _)
WeightSum(ingredients, I) ==
    IF I = {} THEN 0
    ELSE LET i == CHOOSE i \in I : TRUE
         IN  ingredients[i].weight + WeightSum(ingredients, I \ {i})

\* Positions of the flour-named ingredients of percentage groups.
FlourPositions(ingredients) ==
    {i \in 1..Len(ingredients) :
        /\ is_flour_ingredient(ingredients[i].name)
        /\ is_percentage_group(ingredients[i].group)}

FlourTotal(ingredients) == WeightSum(ingredients, FlourPositions(ingredients))

\* C1 (as claimed): a conversion request whose newTotalFlour is <= 0 gets an
\* error response, whatever the stored recipe.
C1_NonPositiveNewFlourFails ==
    (ConversionServed /\ request.newTotalFlour <= 0)
        => response.status = "error"

\* C2: a conversion of a stored recipe whose flour total is <= 0 gets the 400
\* error response: no ratio, no ingredient list, and no division by zero.
C2_NoFlourFails ==
    (/\ ConversionServed
     /\ StoredIngredients # <<>>
     /\ FlourTotal(StoredIngredients) <= 0)
        => /\ response.status = "error"
           /\ response.code = 400
           /\ DOMAIN response = {"status", "code", "message"}

\* C2 witness: a recipe whose only qualifying flour has no weight was refused.
C2_Witness ==
    /\ ConversionServed
    /\ FlourPositions(StoredIngredients) # {}
    /\ FlourTotal(StoredIngredients) = 0
    /\ response.code = 400

\* C3: in a successful conversion an ingredient of a percentage group, and
\* any ingredient when includeNonPercentageGroups is set, weighs its stored
\* weight times the ratio rounded to one decimal; any other ingredient weighs
\* its stored weight.
C3_ScaledWeights ==
    Converted =>
        \A i \in 1..Len(StoredIngredients) :
            response.ingredients[i].weight =
                IF \/ is_percentage_group(StoredIngredients[i].group)
                   \/ request.includeNonPercentageGroups
                THEN RoundedProduct(StoredIngredients[i].weight,
                                    response.conversionRatio)
                ELSE StoredIngredients[i].weight

\* C3 witness: flour 500 g and decoration 20 g converted to 1000 g with the
\* flag set: flour 1000.0 g, decoration 40.0 g.
C3_Witness ==
    /\ Converted
    /\ request.includeNonPercentageGroups
    /\ request.newTotalFlour = 100000
    /\ Len(StoredIngredients) = 2
    /\ StoredIngredients[1].weight = 50000
    /\ StoredIngredients[2].weight = 2000
    /\ ~is_percentage_group(StoredIngredients[2].group)
    /\ response.ingredients[1].weight = 100000
    /\ response.ingredients[2].weight = 4000

\* C4: originalTotalFlour is the sum of the weights of the ingredients that
\* are flour by name and in a percentage group, and conversionRatio is
\* newTotalFlour divided by that sum.
C4_FlourTotalAndRatio ==
    Converted =>
        /\ response.originalTotalFlour = FlourTotal(StoredIngredients)
        /\ response.conversionRatio[1] * FlourTotal(StoredIngredients)
               = request.newTotalFlour * response.conversionRatio[2]
        /\ response.conversionRatio[2] > 0

\* C4 witness: a converted recipe holding weighted flour outside the
\* percentage groups beside its qualifying flour.
C4_Witness ==
    /\ Converted
    /\ \E i \in 1..Len(StoredIngredients) :
           /\ is_flour_ingredient(StoredIngredients[i].name)
           /\ ~is_percentage_group(StoredIngredients[i].group)
           /\ StoredIngredients[i].weight > 0
    /\ response.originalTotalFlour > 0

\* The reference table records the hydration of the name as 0.
ZeroHydration(name) ==
    name \in DOMAIN ingredients_db /\ ingredients_db[name] = 0

\* Positions of the ingredients of percentage groups that have no flour
\* keyword in their name and a reference hydration of 0.
DryPositions(ingredients) ==
    {i \in 1..Len(ingredients) :
        /\ ~is_flour_ingredient(ingredients[i].name)
        /\ ZeroHydration(ingredients[i].name)
        /\ is_percentage_group(ingredients[i].group)}

\* C5 (as claimed): an ingredient of a percentage group counts toward
\* originalTotalFlour when its name has a flour keyword or the reference
\* table records its hydration as 0 (stated for requests with a positive
\* newTotalFlour).
C5_ZeroHydrationCounts ==
    (/\ ConversionServed
     /\ request.newTotalFlour > 0
     /\ StoredIngredients # <<>>) =>
        LET total == WeightSum(StoredIngredients,
                         FlourPositions(StoredIngredients)
                             \cup DryPositions(StoredIngredients))
        IN  total > 0 =>
                /\ response.status = "success"
                /\ response.originalTotalFlour = total

\* C5 (amended): only the flour keywords qualify. An ingredient of a
\* percentage group without a flour keyword adds nothing to
\* originalTotalFlour even when the reference table records its hydration
\* as 0, and a recipe with no other flour is refused.
C5_KeywordOnly ==
    (ConversionServed /\ StoredIngredients # <<>>) =>
        LET dry == WeightSum(StoredIngredients, DryPositions(StoredIngredients))
            all == WeightSum(StoredIngredients,
                       FlourPositions(StoredIngredients)
                           \cup DryPositions(StoredIngredients))
        IN  IF all - dry > 0
            THEN response.status = "success"
                 /\ response.originalTotalFlour + dry = all
            ELSE response.status = "error"

\* C5 witness: a converted recipe with a weighted zero-hydration ingredient
\* that has no flour keyword, in a percentage group.
C5_Witness ==
    /\ Converted
    /\ WeightSum(StoredIngredients, DryPositions(StoredIngredients)) > 0

\* C6: the converted list has the length and order of the recipe's list, and
\* at each position the group, name, percent and description of the stored
\* ingredient.
C6_OrderAndFieldsKept ==
    Converted =>
        /\ Len(response.ingredients) = Len(StoredIngredients)
        /\ \A i \in 1..Len(StoredIngredients) :
               /\ response.ingredients[i].group = StoredIngredients[i].group
               /\ response.ingredients[i].name = StoredIngredients[i].name
               /\ response.ingredients[i].percent = StoredIngredients[i].percent
               /\ response.ingredients[i].desc = StoredIngredients[i].desc

\* C6 witness: a converted recipe of ingredients that differ in every kept
\* field, one scaled to another weight and one left alone.
C6_Witness ==
    /\ Converted
    /\ \E i, j \in 1..Len(StoredIngredients) :
           /\ StoredIngredients[i].group # StoredIngredients[j].group
           /\ StoredIngredients[i].name # StoredIngredients[j].name
           /\ StoredIngredients[i].percent # StoredIngredients[j].percent
           /\ StoredIngredients[i].percent # <<>>
           /\ StoredIngredients[i].desc # StoredIngredients[j].desc
           /\ response.ingredients[i].weight # StoredIngredients[i].weight
           /\ response.ingredients[j].weight = StoredIngredients[j].weight

\* x cg rounded to one decimal place of a gram.
RoundedToOneDecimal(x) == 10 * RoundHalfEven(x, 10)

\* A ratio rounded to three decimal places.
RoundedToThreeDecimals(ratio) ==
    Quotient(RoundHalfEven(1000 * ratio[1], ratio[2]), 1000)

\* C7 (as claimed): the response carries originalTotalFlour and newTotalFlour
\* rounded to one decimal and conversionRatio rounded to three decimals
\* (stated for requests with a positive newTotalFlour).
C7_ScalarsRounded ==
    (Converted /\ request.newTotalFlour > 0) =>
        /\ response.originalTotalFlour
               = RoundedToOneDecimal(FlourTotal(StoredIngredients))
        /\ response.newTotalFlour = RoundedToOneDecimal(request.newTotalFlour)
        /\ response.conversionRatio
               = RoundedToThreeDecimals(
                     Quotient(request.newTotalFlour, FlourTotal(StoredIngredients)))

\* C7 (amended): the response carries the scalars as computed, unrounded:
\* newTotalFlour is the requested value and conversionRatio is the full
\* quotient, so that conversionRatio times originalTotalFlour is
\* newTotalFlour.
C7_ScalarsUnrounded ==
    Converted =>
        /\ response.newTotalFlour = request.newTotalFlour
        /\ response.conversionRatio[1] * response.originalTotalFlour
               = response.newTotalFlour * response.conversionRatio[2]

\* C7 witness: 300 g converted to 100 g returns the ratio 1/3.
C7_Witness ==
    /\ Converted
    /\ response.originalTotalFlour = 30000
    /\ response.newTotalFlour = 10000
    /\ response.conversionRatio = <<1, 3>>
    /\ response.conversionRatio # RoundedToThreeDecimals(response.conversionRatio)

\* C8: converting a recipe to its own flour total without the flag returns
\* each percentage-group weight within 0.05 g of the stored weight and every
\* other weight exactly.
C8_RoundTripAtRatioOne ==
    (/\ Converted
     /\ ~request.includeNonPercentageGroups
     /\ request.newTotalFlour = FlourTotal(StoredIngredients))
        => \A i \in 1..Len(StoredIngredients) :
               IF is_percentage_group(StoredIngredients[i].group)
               THEN Abs(response.ingredients[i].weight
                            - StoredIngredients[i].weight) <= 5
               ELSE response.ingredients[i].weight = StoredIngredients[i].weight

\* C8 witness: a round trip in which a percentage-group weight moved by
\* rounding and an ingredient outside the percentage groups kept its weight.
C8_Witness ==
    /\ Converted
    /\ ~request.includeNonPercentageGroups
    /\ request.newTotalFlour = FlourTotal(StoredIngredients)
    /\ \E i, j \in 1..Len(StoredIngredients) :
           /\ is_percentage_group(StoredIngredients[i].group)
           /\ response.ingredients[i].weight # StoredIngredients[i].weight
           /\ ~is_percentage_group(StoredIngredients[j].group)
           /\ StoredIngredients[j].weight > 0

\* C9: a conversion request, whatever its outcome, leaves the recipes table
\* and the reference table as they were.
C9_ConversionWritesNothing ==
    [][request'.op = "calculate_recipe_conversion"
           => recipes' = recipes /\ ingredients_db' = ingredients_db]_vars

\* C9 witness: a conversion that scaled a weight has been served over a
\* non-empty reference table.
C9_Witness ==
    /\ Converted
    /\ DOMAIN ingredients_db # {}
    /\ \E i \in 1..Len(StoredIngredients) :
           response.ingredients[i].weight # StoredIngredients[i].weight

\* C10 (as claimed): the rows stored under a title are those of one
\* submission: they share the timestamp of one save or update request.
C10_TitleIsUnique ==
    \A i, j \in 1..Len(recipes) :
        recipes[i].title = recipes[j].title
            => recipes[i].timestamp = recipes[j].timestamp

\* No row of the table carries the title.
NoRowsUnder(table, title) ==
    \A i \in 1..Len(table) : table[i].title # title

\* The 404 response of a conversion.
RecipeNotFound == Error(404, "recipe not found")

\* C11: a conversion of a title under which no row is stored is answered
\* with the 404 not-found error and nothing computed. A delete_recipe of the
\* title, a clear_all_data and an update_recipe that renames the title leave
\* no row under it, and only a save_recipe or an update_recipe puts rows
\* under a title again: until then every conversion of the title is 404.
C11_NotFoundUntilStored ==
    /\ [](ConversionServed /\ NoRowsUnder(recipes, request.recipeTitle)
             => response = RecipeNotFound)
    /\ [][/\ request'.op = "delete_recipe"
               => NoRowsUnder(recipes', request'.title)
          /\ request'.op = "clear_all_data" => recipes' = <<>>
          /\ (/\ request'.op = "update_recipe"
              /\ response'.status = "success"
              /\ request'.oldTitle # request'.newTitle)
               => NoRowsUnder(recipes', request'.oldTitle)
          /\ \A title \in Titles :
                 (NoRowsUnder(recipes, title) /\ ~NoRowsUnder(recipes', title))
                     => /\ request'.op \in {"save_recipe", "update_recipe"}
                        /\ title = IF request'.op = "save_recipe"
                                   THEN request'.title
                                   ELSE request'.newTitle]_vars

\* C11 witness: after both submissions, a conversion of a title found no
\* row under it, beside rows of the other title, and was answered 404.
C11_Witness ==
    /\ ConversionServed
    /\ clock = MaxClock
    /\ recipes # <<>>
    /\ NoRowsUnder(recipes, request.recipeTitle)
    /\ response = RecipeNotFound

\* C20: the flour total recomputed over the converted list differs from the
\* requested newTotalFlour by at most 0.05 g for each qualifying flour
\* ingredient, and is newTotalFlour exactly when the recipe has one
\* qualifying flour ingredient and newTotalFlour has at most one decimal.
C20_ConvertedFlourTotal ==
    Converted =>
        LET flours == Cardinality(FlourPositions(response.ingredients))
            total == FlourTotal(response.ingredients)
        IN  /\ Abs(total - request.newTotalFlour) <= 5 * flours
            /\ (flours = 1 /\ request.newTotalFlour % 10 = 0)
                   => total = request.newTotalFlour

\* C20 witness: a recipe of two qualifying flours, 500 g and 300 g,
\* converted to 100.25 g: 62.7 g and 37.6 g, a total of 100.3 g.
C20_Witness ==
    /\ Converted
    /\ request.newTotalFlour = 10025
    /\ Cardinality(FlourPositions(response.ingredients)) = 2
    /\ FlourTotal(StoredIngredients) = 80000
    /\ FlourTotal(response.ingredients) = 10030

(***************************************************************************)
(* Properties of the percent values, over SpecPercent.                     *)
(***************************************************************************)
\* The last request stored a recipe of one ingredient.
PercentSubmitted ==
    /\ request.op = "save_recipe"
    /\ response = Success
    /\ Len(request.ingredients) = 1
    /\ Len(recipes) = 1

\* The percent value of that request, and the percent stored for it.
SubmittedPercent == request.ingredients[1].percent
StoredPercent == recipes[1].percent

\* The submitted value is a string that, blanks aside, ends in "%"; the
\* remainder is the string without that last "%".
EndsInPercentSign ==
    /\ SubmittedPercent.t = "str"
    /\ Strip(SubmittedPercent.s) # <<>>
    /\ Strip(SubmittedPercent.s)[Len(Strip(SubmittedPercent.s))] = "%"

Remainder ==
    SubSeq(Strip(SubmittedPercent.s), 1, Len(Strip(SubmittedPercent.s)) - 1)

\* The number a submitted value without a trailing "%" stands for: the JSON
\* number, or what the string parses to; None when it is no number.
BareNumber ==
    IF SubmittedPercent.t = "num" THEN Some(SubmittedPercent.n)
    ELSE IF SubmittedPercent.t = "str" /\ ~EndsInPercentSign
    THEN ParseFloat(SubmittedPercent.s)
    ELSE None

\* A number n of 10^-FracDigits units, as the stored fraction n / 100 and as
\* the stored fraction n (stored fractions count 10^-(FracDigits + 2)).
StoredHundredthOf(n) == Some(n)
StoredSame(n) == Some(100 * n)

\* C12 (as claimed): a string ending in "%" is stored as N / 100 when the
\* remainder after the trailing "%" parses as N, whatever the size of N, and
\* as null when the remainder does not parse.
C12_PercentSignDivides ==
    (PercentSubmitted /\ EndsInPercentSign) =>
        StoredPercent = IF ParseFloat(Remainder) = None THEN None
                        ELSE StoredHundredthOf(ParseFloat(Remainder)[1])

\* C13: a number n, and a string without trailing "%" that parses to n, is
\* stored as n / 100 when n > 1 and as n when 0 <= n <= 1; n = 1 is stored
\* as 1.
C13_BareNumberScale ==
    (PercentSubmitted /\ BareNumber # None /\ BareNumber[1] >= 0) =>
        StoredPercent = IF BareNumber[1] > Pow10(FracDigits)
                        THEN StoredHundredthOf(BareNumber[1])
                        ELSE StoredSame(BareNumber[1])

\* C13 witness: the string "1" was stored as the fraction 1.
C13_Witness ==
    /\ PercentSubmitted
    /\ SubmittedPercent = PyStr(<<"1">>)
    /\ StoredPercent = Some(100 * Pow10(FracDigits))

\* The submitted value is null, the empty string, or a string that is no
\* number with or without a trailing "%".
NotANumber ==
    \/ SubmittedPercent = PyNone
    \/ /\ SubmittedPercent.t = "str"
       /\ IF EndsInPercentSign THEN ParseFloat(Remainder) = None
          ELSE ParseFloat(SubmittedPercent.s) = None

\* C14 (as claimed): null, the empty string and every string that is no
\* number, with or without a trailing "%", are stored as null, and the
\* request that carries them is served without an error.
C14_FailsSoft ==
    (/\ request.op = "save_recipe"
     /\ Len(request.ingredients) = 1
     /\ NotANumber)
        => /\ response = Success
           /\ Len(recipes) = 1
           /\ StoredPercent = None

\* C15 (as claimed): every stored percent is null or not below 0.
C15_StoredPercentNonNegative ==
    \A i \in 1..Len(recipes) :
        recipes[i].percent = None \/ recipes[i].percent[1] >= 0

\* A stored fraction rounded to four decimal places, which is what two
\* decimal places of its percent display keep.
ToFourDecimals(percent) ==
    IF percent = None THEN None
    ELSE Some(Pow10(FracDigits - 2)
                  * RoundHalfEven(percent[1], Pow10(FracDigits - 2)))

\* C16 (as claimed): formatting a stored fraction for display and
\* normalizing the text gives the stored fraction again.
C16_DisplayInverts ==
    \A i \in 1..Len(recipes) :
        recipes[i].percent # None =>
            normalize_percent_value(PyStr(PercentDisplay(recipes[i].percent[1])))
                = recipes[i].percent

\* C16 (amended): loading a recipe and submitting the loaded ingredients
\* again through update_recipe stores each percent rounded to four decimal
\* places (two decimals of the displayed percent): unchanged when it has no
\* more places than that, null when it was null.
C16_ResubmitRounds ==
    [][(request'.op = "update_recipe" /\ request'.oldTitle = request'.newTitle)
          => /\ Len(recipes') = Len(recipes)
             /\ \A i \in 1..Len(recipes) :
                    recipes'[i].percent = ToFourDecimals(recipes[i].percent)]_vars

\* C16 witness: a recipe stored with 0.625 was listed as "62.50%", loaded
\* and submitted again, and is stored with 0.625.
C16_Witness ==
    /\ request.op = "update_recipe"
    /\ Len(request.ingredients) = 1
    /\ request.ingredients[1].percent = PyStr(<<"6", "2", ".", "5", "0", "%">>)
    /\ Len(recipes) = 1
    /\ recipes[1].percent = Some(625 * Pow10(FracDigits - 1))

(***************************************************************************)
(* Property of the hydration display, over SpecHydration.                  *)
(***************************************************************************)
\* The reference hydration of a name, clamped to [0, 100]; None without an
\* entry.
ReferenceHydration(name) ==
    IF name \notin DOMAIN ingredients_db THEN None
    ELSE Some(IF ingredients_db[name] < 0 THEN 0
              ELSE IF ingredients_db[name] > 100 THEN 100
              ELSE ingredients_db[name])

\* The percent of an ingredient's weight that counts as water: its
\* reference hydration, or 0 for a flour keyword without an entry; None for
\* an ingredient that counts as neither.
WaterShare(ing) ==
    IF ~is_percentage_group(ing.group) \/ OrElse(ing.weight, 0, 0) <= 0 THEN None
    ELSE IF ReferenceHydration(ing.name) # None THEN ReferenceHydration(ing.name)
    ELSE IF is_flour_ingredient(ing.name) THEN Some(0)
    ELSE None

\* Flour total and water total of a list, both times 100.
RECURSIVE HydrationTotals(_)
HydrationTotals(ingredients) ==
    IF ingredients = <<>> THEN [flour |-> 0, water |-> 0]
    ELSE LET rest == HydrationTotals(Tail(ingredients))
             h == WaterShare(Head(ingredients))
             w == OrElse(Head(ingredients).weight, 0, 0)
         IN  IF h = None THEN rest
             ELSE [flour |-> rest.flour + w * (100 - h[1]),
                   water |-> rest.water + w * h[1]]

\* (water total / flour total) * 100 with two decimals and "%"; "0%" when
\* the flour total is zero.
RecipeHydrationText(ingredients) ==
    LET totals == HydrationTotals(ingredients)
        ratio == Quotient(totals.water, totals.flour)
        h == RoundHalfEven(10000 * ratio[1], ratio[2])
    IN  IF totals.flour = 0 THEN <<"0", "%">>
        ELSE NatText(h \div 100)
             \o <<".", Digits[((h \div 10) % 10) + 1], Digits[(h % 10) + 1], "%">>

\* C17 (as claimed): the hydration shown is the water total over the flour
\* total of the form's whole ingredient list, times 100, with two decimals
\* and "%", and "0%" when the flour total is zero.
C17_RecipeHydrationShown ==
    request.op = "updateHydration"
        => response.hydration_display = RecipeHydrationText(request.form)

(***************************************************************************)
(* Properties of transactions and connections, over SpecStore.             *)
(***************************************************************************)
\* A step that serves a save_recipe or an update_recipe request: these are
\* the steps that take a timestamp.
StoreStep ==
    /\ clock' = clock + 1
    /\ request'.op \in {"save_recipe", "update_recipe"}

\* An ingredient dict of the request lacks a key the INSERT loop reads.
LacksKey(ingredients) ==
    \E i \in 1..Len(ingredients) :
        \E key \in {"percent", "group", "name", "weight", "desc"} :
            key \notin DOMAIN ingredients[i]

\* C18: a save_recipe or update_recipe request with an ingredient that lacks
\* a key fails and leaves the recipes table as it was: none of its rows is
\* stored and, for an update, the rows of the old title stay. A request that
\* succeeds removes the rows of the old title (update) and appends one row
\* per ingredient under the new title, in one step.
C18_AllOrNothing ==
    [][StoreStep =>
          LET kept == IF request'.op = "save_recipe" THEN recipes
                      ELSE SelectSeq(recipes,
                               LAMBDA row : row.title # request'.oldTitle)
              title == IF request'.op = "save_recipe" THEN request'.title
                       ELSE request'.newTitle
              n == Len(request'.ingredients)
          IN  IF LacksKey(request'.ingredients)
              THEN response'.status = "error" /\ recipes' = recipes
              ELSE /\ response' = Success
                   /\ Len(recipes') = Len(kept) + n
                   /\ SubSeq(recipes', 1, Len(kept)) = kept
                   /\ \A i \in 1..n :
                          /\ recipes'[Len(kept) + i].title = title
                          /\ recipes'[Len(kept) + i].ingredient
                                 = request'.ingredients[i].name
                          /\ recipes'[Len(kept) + i].timestamp = clock']_vars

\* C18 witness: an update_recipe failed at its second ingredient, after the
\* DELETE and one INSERT had run, and the rows of the old title are stored.
C18_Witness ==
    /\ request.op = "update_recipe"
    /\ response.status = "error"
    /\ Len(request.ingredients) = 2
    /\ ~LacksKey(<<request.ingredients[1]>>)
    /\ LacksKey(<<request.ingredients[2]>>)
    /\ ~NoRowsUnder(recipes, request.oldTitle)
    /\ NoRowsUnder(recipes, request.newTitle)

\* C19 (as claimed): a handler that returns a response has closed the
\* connection it opened: no step that ends with a returned response (200,
\* 400 or 404) leaves more connections open than there were before it.
C19_ConnectionsClosed ==
    [][response'.code \in {200, 400, 404} => connections' <= connections]_vars

====
